---- MODULE Spec2Model ----
(***************************************************************************)
(* Model of ndless-rs:                                                     *)
(*   - ndless/src/file_io/time.rs : Instant, SystemTime, SystemTimeError   *)
(*   - ndless-sdl/src/video.rs    : the safe wrappers over SDL 1.2 video   *)
(*                                                                         *)
(* time.rs delegates to crate::file_io::sys::time, the platform layer.     *)
(* That layer is modelled by its contract: the reading of a clock is a     *)
(* core::time::Duration since the origin of the clock, and                 *)
(* the sys operations are Duration's checked arithmetic.                   *)
(***************************************************************************)
EXTENDS Integers, Sequences, FiniteSets, TLC

VARIABLES
    mono,       \* current reading of the platform's monotonic clock
    instants,   \* the values returned by Instant::now(), in call order
    operands,   \* the two operands of the time arithmetic: a point in time,
                \* and a second point in time or a duration
    result,     \* the last call of the time module: [op, args, out]
    surfaces,   \* the Surface wrappers the program holds
    sdl_error,  \* what get_error() returns (SDL's last error message)
    ll_call,    \* the last native SDL call: [fn, ret]
    vresult     \* the last call of the video module: [op, out]

vars == <<mono, instants, operands, result, surfaces, sdl_error, ll_call, vresult>>
videoVars == <<surfaces, sdl_error, ll_call, vresult>>

(***************************************************************************)
(* Bounds.                                                                 *)
(***************************************************************************)
\* Largest whole-seconds count a Duration holds (u64::MAX, scaled down).
MaxSecs == 2
\* Nanoseconds per second (1_000_000_000, scaled down).
NANOS_PER_SEC == 2
\* Number of Instant::now() readings kept in the history.
MaxReads == 2
\* Native pointers are NULL and 1..MaxPtr.
MaxPtr == 2
\* Native return codes are -MaxRet..MaxRet.
MaxRet == 2
\* Number of Surface wrappers the program holds at a time.
MaxSurfaces == 2

(***************************************************************************)
(* Return values: Option, Result, a plain value, or a panic.               *)
(***************************************************************************)
None == [tag |-> "None"]
Some(x) == [tag |-> "Some", v |-> x]
Ok(x) == [tag |-> "Ok", v |-> x]
Err(e) == [tag |-> "Err", v |-> e]
Value(x) == [tag |-> "Value", v |-> x]
Panic(msg) == [tag |-> "Panic", msg |-> msg]
Unit == [tag |-> "Unit"]

\* Option::expect(msg): the value, or a panic with msg.
Expect(opt, msg) == IF opt.tag = "Some" THEN Value(opt.v) ELSE Panic(msg)

(***************************************************************************)
(* core::time::Duration: whole seconds and a sub-second nanosecond part.   *)
(***************************************************************************)
Durations == [secs : 0..MaxSecs, nanos : 0..(NANOS_PER_SEC - 1)]

\* Duration::new(secs, nanos): the nanoseconds carry into the seconds.
Duration_new(secs, nanos) ==
    [secs |-> secs + (nanos \div NANOS_PER_SEC), nanos |-> nanos % NANOS_PER_SEC]

\* Duration::checked_add
Duration_checked_add(a, b) ==
    IF a.secs + b.secs > MaxSecs THEN None
    ELSE LET secs == a.secs + b.secs
             nanos == a.nanos + b.nanos
         IN  IF nanos >= NANOS_PER_SEC
             THEN IF secs + 1 > MaxSecs THEN None
                  ELSE Some([secs |-> secs + 1, nanos |-> nanos - NANOS_PER_SEC])
             ELSE Some([secs |-> secs, nanos |-> nanos])

\* Duration::checked_sub
Duration_checked_sub(a, b) ==
    IF a.secs < b.secs THEN None
    ELSE LET secs == a.secs - b.secs
         IN  IF a.nanos >= b.nanos
             THEN Some([secs |-> secs, nanos |-> a.nanos - b.nanos])
             ELSE IF secs < 1 THEN None
                  ELSE Some([secs |-> secs - 1,
                             nanos |-> a.nanos + NANOS_PER_SEC - b.nanos])

\* #[derive(PartialOrd, Ord)] on Duration: seconds first, then nanoseconds.
Duration_lt(a, b) == a.secs < b.secs \/ (a.secs = b.secs /\ a.nanos < b.nanos)

(***************************************************************************)
(* crate::file_io::sys::time: the platform layer.                          *)
(***************************************************************************)
\* A clock reading: the time since the clock's origin.
Times == Durations

sys_UNIX_EPOCH == [secs |-> 0, nanos |-> 0]

\* sys::time::Instant::checked_sub_instant
sys_checked_sub_instant(a, b) == Duration_checked_sub(a, b)

\* sys::time::{Instant, SystemTime}::checked_add_duration
sys_checked_add_duration(t, d) == Duration_checked_add(t, d)

\* sys::time::{Instant, SystemTime}::checked_sub_duration
sys_checked_sub_duration(t, d) == Duration_checked_sub(t, d)

\* sys::time::SystemTime::sub_time: Ok(self - other), or Err(other - self).
sys_sub_time(a, b) ==
    LET d == Duration_checked_sub(a, b)
    IN  IF d.tag = "Some" THEN Ok(d.v) ELSE Err(Duration_checked_sub(b, a).v)

\* sys::time::Instant::now(): the monotonic clock's reading.
sys_Instant_now == mono

\* sys::time::SystemTime::now(): the system clock's reading.  The system
\* clock can be set at any moment, forwards or backwards, so a reading is
\* any point in time.
sys_SystemTime_now_values == Times

(***************************************************************************)
(* time.rs: Instant                                                        *)
(***************************************************************************)
\* pub struct Instant(time::Instant)
Instant(inner) == [t |-> inner]

\* Option::map(Instant)
MapInstant(opt) == IF opt.tag = "Some" THEN Some(Instant(opt.v)) ELSE None

\* Instant::now
Instant_now == Instant(sys_Instant_now)

Instant_duration_since_saturating(self, earlier) ==
    LET d == sys_checked_sub_instant(self.t, earlier.t)
    IN  Value(IF d.tag = "Some" THEN d.v ELSE Duration_new(0, 0))
\* Instant::duration_since
Instant_duration_since(self, earlier) ==
    Expect(sys_checked_sub_instant(self.t, earlier.t),
           "supplied instant is later than self")

Instant_checked_duration_since_saturating(self, earlier) ==
    LET d == sys_checked_sub_instant(self.t, earlier.t)
    IN  IF d.tag = "Some" THEN d ELSE Some(Duration_new(0, 0))
Instant_checked_duration_since_swapped(self, earlier) ==
    sys_checked_sub_instant(earlier.t, self.t)
\* Instant::checked_duration_since
Instant_checked_duration_since(self, earlier) ==
    sys_checked_sub_instant(self.t, earlier.t)

Instant_saturating_duration_since_expect(self, earlier) ==
    Expect(Instant_checked_duration_since(self, earlier),
           "supplied instant is later than self")
\* Instant::saturating_duration_since
Instant_saturating_duration_since(self, earlier) ==
    LET d == Instant_checked_duration_since(self, earlier)
    IN  Value(IF d.tag = "Some" THEN d.v ELSE Duration_new(0, 0))

\* Instant::checked_add
Instant_checked_add(self, duration) ==
    MapInstant(sys_checked_add_duration(self.t, duration))

Instant_checked_sub_as_add(self, duration) ==
    MapInstant(sys_checked_add_duration(self.t, duration))
\* Instant::checked_sub
Instant_checked_sub(self, duration) ==
    MapInstant(sys_checked_sub_duration(self.t, duration))

Instant_add_saturating(self, other) ==
    LET r == Instant_checked_add(self, other)
    IN  Value(IF r.tag = "Some" THEN r.v
              ELSE Instant([secs |-> MaxSecs, nanos |-> NANOS_PER_SEC - 1]))
\* impl Add<Duration> for Instant
Instant_add(self, other) ==
    Expect(Instant_checked_add(self, other),
           "overflow when adding duration to instant")

\* impl Sub<Duration> for Instant
Instant_sub(self, other) ==
    Expect(Instant_checked_sub(self, other),
           "overflow when subtracting duration from instant")

\* impl Sub<Instant> for Instant
Instant_sub_instant(self, other) == Instant_duration_since(self, other)

(***************************************************************************)
(* time.rs: SystemTime                                                     *)
(***************************************************************************)
\* pub struct SystemTime(time::SystemTime)
SystemTime(inner) == [st |-> inner]

\* pub struct SystemTimeError(Duration)
SystemTimeError(d) == [err |-> d]

\* SystemTimeError::duration
SystemTimeError_duration(e) == e.err

\* pub const UNIX_EPOCH
UNIX_EPOCH == SystemTime(sys_UNIX_EPOCH)

\* Option::map(SystemTime)
MapSystemTime(opt) == IF opt.tag = "Some" THEN Some(SystemTime(opt.v)) ELSE None

\* SystemTime::now, the system clock reading w
SystemTime_now(w) == SystemTime(w)

SystemTime_duration_since_expect(self, earlier) ==
    LET r == sys_sub_time(self.st, earlier.st)
    IN  IF r.tag = "Ok" THEN Ok(r.v) ELSE Panic("supplied instant is later than self")
\* SystemTime::duration_since
SystemTime_duration_since(self, earlier) ==
    LET r == sys_sub_time(self.st, earlier.st)
    IN  IF r.tag = "Ok" THEN Ok(r.v) ELSE Err(SystemTimeError(r.v))

\* SystemTime::checked_add
SystemTime_checked_add(self, duration) ==
    MapSystemTime(sys_checked_add_duration(self.st, duration))

\* SystemTime::checked_sub
SystemTime_checked_sub(self, duration) ==
    MapSystemTime(sys_checked_sub_duration(self.st, duration))

\* impl Add<Duration> for SystemTime
SystemTime_add(self, dur) ==
    Expect(SystemTime_checked_add(self, dur),
           "overflow when adding duration to instant")

\* impl Sub<Duration> for SystemTime
SystemTime_sub(self, dur) ==
    Expect(SystemTime_checked_sub(self, dur),
           "overflow when subtracting duration from instant")

\* *self = *self <op> other: the value stored in *self, unless the operator
\* panicked before the assignment.
Assign(r) == IF r.tag = "Value" THEN [tag |-> "Stored", v |-> r.v] ELSE r

(***************************************************************************)
(* video.rs: the values the native SDL library returns.                    *)
(***************************************************************************)
\* ptr::null_mut(), the pointer is_null() tests for
NULL == 0
\* *mut SDL_Surface
Ptrs == NULL..MaxPtr
\* c_int
RetCodes == (-MaxRet)..MaxRet
\* The messages SDL_GetError can report.
ErrMsgs == {"Couldn't open file", "Out of memory"}

(***************************************************************************)
(* video.rs: the wrappers, as functions of what the native call returned.  *)
(* err is what get_error() reports after the call.                         *)
(***************************************************************************)
\* fn wrap_surface
wrap_surface(raw, owned) == [raw |-> raw, owned |-> owned]

set_video_mode_always_ok(raw, err) == Ok(wrap_surface(raw, FALSE))
\* pub fn set_video_mode
set_video_mode(raw, err) ==
    IF raw = NULL THEN Err(err) ELSE Ok(wrap_surface(raw, FALSE))

is_video_mode_ok_negative(bpp) == IF bpp <= 0 THEN None ELSE Some(bpp)
\* pub fn is_video_mode_ok
is_video_mode_ok(bpp) == IF bpp = 0 THEN None ELSE Some(bpp)

\* pub fn get_video_surface
get_video_surface(raw, err) ==
    IF raw = NULL THEN Err(err) ELSE Ok(wrap_surface(raw, FALSE))

\* Surface::new
Surface_new(raw, err) ==
    IF raw = NULL THEN Err(err) ELSE Ok([raw |-> raw, owned |-> TRUE])

\* Surface::from_bmp, past the conversion of the path
Surface_from_bmp(raw, err) ==
    IF raw = NULL THEN Err(err) ELSE Ok(wrap_surface(raw, TRUE))

\* Surface::set_colors
Surface_set_colors(ret) == ret = 1

\* Surface::set_palette
Surface_set_palette(ret) == ret = 1

\* Surface::lock
Surface_lock(ret) == ret = 0

\* Surface::flip
Surface_flip(ret) == ret = 0

\* Surface::convert
Surface_convert(new, err) ==
    IF new = NULL THEN Err(err) ELSE Ok(wrap_surface(new, TRUE))

\* Surface::try_clone
Surface_try_clone(new, err) ==
    IF new = NULL THEN Err(err) ELSE Ok(wrap_surface(new, TRUE))

\* Surface::display_format
Surface_display_format(raw, err) ==
    IF raw = NULL THEN Err(err) ELSE Ok(wrap_surface(raw, TRUE))

\* Surface::display_format_alpha
Surface_display_format_alpha(raw, err) ==
    IF raw = NULL THEN Err(err) ELSE Ok(wrap_surface(raw, TRUE))

\* Surface::save_bmp, past the conversion of the path
Surface_save_bmp(ret) == ret = 0

\* Surface::set_alpha
Surface_set_alpha(ret) == ret = 0

\* Surface::set_color_key
Surface_set_color_key(ret) == ret = 0

\* Surface::blit_rect
Surface_blit_rect(ret) == ret = 0

\* Surface::fill_rect
Surface_fill_rect(ret) == ret = 0

\* pub fn set_gamma
set_gamma(ret) == ret # -1

\* pub fn set_gamma_ramp
set_gamma_ramp(ret) == ret # -1

(***************************************************************************)
(* The state after start-up.                                               *)
(***************************************************************************)
NoCall == [op |-> "none", args |-> <<>>, out |-> Unit]
NoNative == [fn |-> "none", ret |-> 0]
NoVideoCall == [op |-> "none", out |-> Unit]

Init ==
    /\ mono = sys_UNIX_EPOCH
    /\ instants = <<>>
    /\ operands = <<sys_UNIX_EPOCH, Duration_new(0, 0)>>
    /\ result = NoCall
    /\ surfaces = {}
    /\ sdl_error = ""
    /\ ll_call = NoNative
    /\ vresult = NoVideoCall

\* A call of the time module that reads no clock.
Call(op, args, out) ==
    /\ result' = [op |-> op, args |-> args, out |-> out]
    /\ UNCHANGED <<mono, instants, operands>>
    /\ UNCHANGED videoVars

Range(s) == {s[i] : i \in DOMAIN s}

(***************************************************************************)
(* The platform's clock.                                                   *)
(***************************************************************************)
\* The monotonic clock advances, by any amount.
Tick ==
    /\ \E t \in Times : Duration_lt(mono, t) /\ mono' = t
    /\ UNCHANGED <<instants, operands, result>>
    /\ UNCHANGED videoVars

(***************************************************************************)
(* Calls that read a clock.                                                *)
(***************************************************************************)
\* Instant::now that reads the system clock, which can be set backwards.
InstantNowSystemClock ==
    /\ Len(instants) < MaxReads
    /\ \E w \in sys_SystemTime_now_values :
        /\ instants' = Append(instants, Instant(w))
        /\ result' = [op |-> "Instant::now", args |-> <<>>, out |-> Value(Instant(w))]
    /\ UNCHANGED <<mono, operands>>
    /\ UNCHANGED videoVars

InstantNow ==
    /\ Len(instants) < MaxReads
    /\ instants' = Append(instants, Instant_now)
    /\ result' = [op |-> "Instant::now", args |-> <<>>, out |-> Value(Instant_now)]
    /\ UNCHANGED <<mono, operands>>
    /\ UNCHANGED videoVars

\* Instant::elapsed: Instant::now() - *self
InstantElapsed ==
    /\ Len(instants) < MaxReads
    /\ \E self \in Range(instants) :
        /\ instants' = Append(instants, Instant_now)
        /\ result' = [op |-> "Instant::elapsed", args |-> <<self>>,
                      out |-> Instant_sub_instant(Instant_now, self)]
    /\ UNCHANGED <<mono, operands>>
    /\ UNCHANGED videoVars

SystemTimeNow ==
    \E w \in sys_SystemTime_now_values :
        Call("SystemTime::now", <<>>, Value(SystemTime_now(w)))

\* SystemTime::elapsed: SystemTime::now().duration_since(*self)
SystemTimeElapsed(self) ==
    \E w \in sys_SystemTime_now_values :
        Call("SystemTime::elapsed", <<self>>,
             SystemTime_duration_since(SystemTime_now(w), self))

(***************************************************************************)
(* Instant: the difference of two instants.                                *)
(***************************************************************************)
InstantDurationSince(self, earlier) ==
    Call("Instant::duration_since", <<self, earlier>>,
         Instant_duration_since(self, earlier))

InstantSubInstant(self, other) ==
    Call("Instant - Instant", <<self, other>>, Instant_sub_instant(self, other))

InstantCheckedDurationSince(self, earlier) ==
    Call("Instant::checked_duration_since", <<self, earlier>>,
         Instant_checked_duration_since(self, earlier))

InstantSaturatingDurationSince(self, earlier) ==
    Call("Instant::saturating_duration_since", <<self, earlier>>,
         Instant_saturating_duration_since(self, earlier))

(***************************************************************************)
(* Instant and a Duration.                                                 *)
(***************************************************************************)
InstantCheckedAdd(self, d) ==
    Call("Instant::checked_add", <<self, d>>, Instant_checked_add(self, d))

InstantCheckedSub(self, d) ==
    Call("Instant::checked_sub", <<self, d>>, Instant_checked_sub(self, d))

InstantAdd(self, d) ==
    Call("Instant + Duration", <<self, d>>, Instant_add(self, d))

\* impl AddAssign<Duration> for Instant: *self = *self + other
InstantAddAssign(self, d) ==
    Call("Instant += Duration", <<self, d>>, Assign(Instant_add(self, d)))

InstantSub(self, d) ==
    Call("Instant - Duration", <<self, d>>, Instant_sub(self, d))

\* impl SubAssign<Duration> for Instant: *self = *self - other
InstantSubAssign(self, d) ==
    Call("Instant -= Duration", <<self, d>>, Assign(Instant_sub(self, d)))

(***************************************************************************)
(* SystemTime                                                              *)
(***************************************************************************)
SystemTimeDurationSince(self, earlier) ==
    Call("SystemTime::duration_since", <<self, earlier>>,
         SystemTime_duration_since(self, earlier))

SystemTimeCheckedAdd(self, d) ==
    Call("SystemTime::checked_add", <<self, d>>, SystemTime_checked_add(self, d))

SystemTimeCheckedSub(self, d) ==
    Call("SystemTime::checked_sub", <<self, d>>, SystemTime_checked_sub(self, d))

SystemTimeAdd(self, d) ==
    Call("SystemTime + Duration", <<self, d>>, SystemTime_add(self, d))

\* impl AddAssign<Duration> for SystemTime: *self = *self + other
SystemTimeAddAssign(self, d) ==
    Call("SystemTime += Duration", <<self, d>>, Assign(SystemTime_add(self, d)))

SystemTimeSub(self, d) ==
    Call("SystemTime - Duration", <<self, d>>, SystemTime_sub(self, d))

\* impl SubAssign<Duration> for SystemTime: *self = *self - other
SystemTimeSubAssign(self, d) ==
    Call("SystemTime -= Duration", <<self, d>>, Assign(SystemTime_sub(self, d)))

(***************************************************************************)
(* Specification of the clocks, and of the calls on instants that were     *)
(* read from the monotonic clock.                                          *)
(***************************************************************************)
ReadDurationSince ==
    \E self \in Range(instants), earlier \in Range(instants) :
        InstantDurationSince(self, earlier)

ReadSubInstant ==
    \E self \in Range(instants), earlier \in Range(instants) :
        InstantSubInstant(self, earlier)

ReadCheckedDurationSince ==
    \E self \in Range(instants), earlier \in Range(instants) :
        InstantCheckedDurationSince(self, earlier)

ReadSaturatingDurationSince ==
    \E self \in Range(instants), earlier \in Range(instants) :
        InstantSaturatingDurationSince(self, earlier)

Next ==
    \/ Tick
    \/ InstantNow
    \/ InstantElapsed
    \/ ReadDurationSince
    \/ ReadSubInstant
    \/ ReadCheckedDurationSince
    \/ ReadSaturatingDurationSince

Spec == Init /\ [][Next]_vars

(***************************************************************************)
(* Specification of the time arithmetic as pure functions, and of the      *)
(* reads of the system clock: the operands are any point in time and any   *)
(* second point in time or duration.                                       *)
(***************************************************************************)
ArithInit ==
    /\ mono = sys_UNIX_EPOCH
    /\ instants = <<>>
    /\ operands \in Times \X Durations
    /\ result = NoCall
    /\ surfaces = {}
    /\ sdl_error = ""
    /\ ll_call = NoNative
    /\ vresult = NoVideoCall

ArithNext ==
    \/ InstantDurationSince(Instant(operands[1]), Instant(operands[2]))
    \/ InstantSubInstant(Instant(operands[1]), Instant(operands[2]))
    \/ InstantCheckedDurationSince(Instant(operands[1]), Instant(operands[2]))
    \/ InstantSaturatingDurationSince(Instant(operands[1]), Instant(operands[2]))
    \/ InstantCheckedAdd(Instant(operands[1]), operands[2])
    \/ InstantCheckedSub(Instant(operands[1]), operands[2])
    \/ InstantAdd(Instant(operands[1]), operands[2])
    \/ InstantAddAssign(Instant(operands[1]), operands[2])
    \/ InstantSub(Instant(operands[1]), operands[2])
    \/ InstantSubAssign(Instant(operands[1]), operands[2])
    \/ SystemTimeNow
    \/ SystemTimeElapsed(SystemTime(operands[1]))
    \/ SystemTimeDurationSince(SystemTime(operands[1]), SystemTime(operands[2]))
    \/ SystemTimeCheckedAdd(SystemTime(operands[1]), operands[2])
    \/ SystemTimeCheckedSub(SystemTime(operands[1]), operands[2])
    \/ SystemTimeAdd(SystemTime(operands[1]), operands[2])
    \/ SystemTimeAddAssign(SystemTime(operands[1]), operands[2])
    \/ SystemTimeSub(SystemTime(operands[1]), operands[2])
    \/ SystemTimeSubAssign(SystemTime(operands[1]), operands[2])

ArithSpec == ArithInit /\ [][ArithNext]_vars

(***************************************************************************)
(* Properties of the time module.                                          *)
(***************************************************************************)
\* The length of a duration, or the distance of a reading from the clock's
\* origin, in nanoseconds.
Nanos(d) == d.secs * NANOS_PER_SEC + d.nanos

\* The largest number of nanoseconds a Duration or a clock reading holds.
MaxNanos == MaxSecs * NANOS_PER_SEC + (NANOS_PER_SEC - 1)

\* The reading an Instant or a SystemTime wraps.
Inner(x) == IF "t" \in DOMAIN x THEN x.t ELSE x.st

\* out is the duration of n nanoseconds, returned under tag.
IsDuration(out, tag, n) ==
    /\ out.tag = tag
    /\ out.v \in Durations
    /\ Nanos(out.v) = n

\* C1: every value returned by Instant::now() is greater than or equal to
\* every value returned by an earlier call of Instant::now().
C1_InstantNowMonotonic ==
    \A i, j \in DOMAIN instants :
        i < j => Nanos(instants[i].t) <= Nanos(instants[j].t)

\* Two calls of Instant::now() between which the clock jumped forwards.
C1_Witness ==
    /\ Len(instants) >= 2
    /\ Nanos(instants[1].t) < Nanos(instants[2].t)

\* C2: Instant::duration_since(self, earlier), and self - earlier, panic if
\* earlier is later than self and otherwise return the time elapsed from
\* earlier to self.
C2_DurationSince ==
    result.op \in {"Instant::duration_since", "Instant - Instant"} =>
        LET self == result.args[1]
            earlier == result.args[2]
        IN  IF Nanos(earlier.t) > Nanos(self.t)
            THEN result.out.tag = "Panic"
            ELSE IsDuration(result.out, "Value", Nanos(self.t) - Nanos(earlier.t))

\* self - earlier with earlier later than self: a panic.
C2_Witness ==
    /\ result.op = "Instant - Instant"
    /\ Nanos(result.args[2].t) > Nanos(result.args[1].t)
    /\ result.out.tag = "Panic"

C6_CheckedAddSub ==
    /\ result.op \in {"Instant::checked_add", "SystemTime::checked_add"} =>
        LET t == Nanos(Inner(result.args[1])) + Nanos(result.args[2])
        IN  IF t <= MaxNanos
            THEN /\ result.out.tag = "Some"
                 /\ Inner(result.out.v) \in Times
                 /\ Nanos(Inner(result.out.v)) = t
                 /\ DOMAIN result.out.v = DOMAIN result.args[1]
            ELSE result.out = None
    /\ result.op \in {"Instant::checked_sub", "SystemTime::checked_sub"} =>
        LET t == Nanos(Inner(result.args[1])) - Nanos(result.args[2])
        IN  IF t >= 0
            THEN /\ result.out.tag = "Some"
                 /\ Inner(result.out.v) \in Times
                 /\ Nanos(Inner(result.out.v)) = t
                 /\ DOMAIN result.out.v = DOMAIN result.args[1]
            ELSE result.out = None

\* checked_add whose seconds fit but whose nanoseconds carry past the
\* largest representable point in time.
C6_Witness ==
    /\ result.op = "Instant::checked_add"
    /\ result.args[1].t.secs + result.args[2].secs = MaxSecs
    /\ result.args[1].t.nanos + result.args[2].nanos >= NANOS_PER_SEC
    /\ result.out = None

\* The outcome of t + d or t - d that agrees with the checked version chk:
\* a panic when chk is None, and otherwise chk's value, returned under tag.
AgreesWithChecked(out, chk, tag) ==
    IF chk.tag = "None" THEN out.tag = "Panic"
    ELSE out = [tag |-> tag, v |-> chk.v]

\* C7: t + d and t - d panic exactly when the resulting point in time cannot
\* be represented, that is exactly when checked_add / checked_sub returns
\* None, and otherwise return the checked version's value; t += d and
\* t -= d store exactly the value of t + d / t - d.
C7_AddSubOperators ==
    LET t == result.args[1]
        d == result.args[2]
    IN  /\ result.op = "Instant + Duration" =>
            /\ AgreesWithChecked(result.out, Instant_checked_add(t, d), "Value")
            /\ result.out.tag = "Panic" <=> Nanos(t.t) + Nanos(d) > MaxNanos
        /\ result.op = "Instant - Duration" =>
            /\ AgreesWithChecked(result.out, Instant_checked_sub(t, d), "Value")
            /\ result.out.tag = "Panic" <=> Nanos(t.t) - Nanos(d) < 0
        /\ result.op = "Instant += Duration" =>
            AgreesWithChecked(result.out, Instant_checked_add(t, d), "Stored")
        /\ result.op = "Instant -= Duration" =>
            AgreesWithChecked(result.out, Instant_checked_sub(t, d), "Stored")
        /\ result.op = "SystemTime + Duration" =>
            /\ AgreesWithChecked(result.out, SystemTime_checked_add(t, d), "Value")
            /\ result.out.tag = "Panic" <=> Nanos(t.st) + Nanos(d) > MaxNanos
        /\ result.op = "SystemTime - Duration" =>
            /\ AgreesWithChecked(result.out, SystemTime_checked_sub(t, d), "Value")
            /\ result.out.tag = "Panic" <=> Nanos(t.st) - Nanos(d) < 0
        /\ result.op = "SystemTime += Duration" =>
            AgreesWithChecked(result.out, SystemTime_checked_add(t, d), "Stored")
        /\ result.op = "SystemTime -= Duration" =>
            AgreesWithChecked(result.out, SystemTime_checked_sub(t, d), "Stored")

\* t += d past the largest representable point in time: a panic.
C7_Witness ==
    /\ result.op = "Instant += Duration"
    /\ Nanos(result.args[1].t) + Nanos(result.args[2]) > MaxNanos
    /\ result.out.tag = "Panic"

\* C8: SystemTime::duration_since(self, earlier) never panics: it returns
\* Ok of the time elapsed from earlier to self when earlier is not later
\* than self, and otherwise Err(e), e holding how far earlier is from self.
C8_SystemTimeDurationSince ==
    result.op = "SystemTime::duration_since" =>
        LET self == result.args[1]
            earlier == result.args[2]
        IN  IF Nanos(earlier.st) <= Nanos(self.st)
            THEN IsDuration(result.out, "Ok", Nanos(self.st) - Nanos(earlier.st))
            ELSE /\ result.out.tag = "Err"
                 /\ SystemTimeError_duration(result.out.v) \in Durations
                 /\ Nanos(SystemTimeError_duration(result.out.v))
                        = Nanos(earlier.st) - Nanos(self.st)

\* duration_since with earlier later than self: an Err.
C8_Witness ==
    /\ result.op = "SystemTime::duration_since"
    /\ Nanos(result.args[2].st) > Nanos(result.args[1].st)
    /\ result.out.tag = "Err"

(***************************************************************************)
(* video.rs: the calls.  Each makes its native call, which returns any     *)
(* value of its type and may leave an error message behind when it fails,  *)
(* and converts what the native call returned.                             *)
(***************************************************************************)
\* crate::get_error(): SDL's error message, read after the native call.
get_error == sdl_error'

UnwrapPanic == Panic("called Result::unwrap() on an Err value")

\* The native call fn returned the pointer raw.
NativePtr(fn, raw) ==
    /\ ll_call' = [fn |-> fn, ret |-> raw]
    /\ IF raw = NULL
       THEN sdl_error' \in ErrMsgs \cup {sdl_error}
       ELSE sdl_error' = sdl_error

\* The native call fn returned the code ret.
NativeInt(fn, ret) ==
    /\ ll_call' = [fn |-> fn, ret |-> ret]
    /\ IF ret < 0
       THEN sdl_error' \in ErrMsgs \cup {sdl_error}
       ELSE sdl_error' = sdl_error

\* The wrapper op returns out; a Surface it returns is kept by the program.
ReturnSurface(op, out) ==
    /\ vresult' = [op |-> op, out |-> out]
    /\ surfaces' = IF out.tag = "Ok" THEN surfaces \cup {out.v} ELSE surfaces
    /\ UNCHANGED <<mono, instants, operands, result>>

\* The wrapper op returns out.
Return(op, out) ==
    /\ vresult' = [op |-> op, out |-> out]
    /\ UNCHANGED <<surfaces, mono, instants, operands, result>>

\* The wrapper op panics before it makes its native call.
PanicBeforeCall(op) ==
    /\ vresult' = [op |-> op, out |-> UnwrapPanic]
    /\ ll_call' = NoNative
    /\ UNCHANGED <<surfaces, sdl_error, mono, instants, operands, result>>

SetVideoMode ==
    /\ Cardinality(surfaces) < MaxSurfaces
    /\ \E raw \in Ptrs :
        /\ NativePtr("SDL_SetVideoMode", raw)
        /\ ReturnSurface("set_video_mode", set_video_mode(raw, get_error))

IsVideoModeOk ==
    \E bpp \in RetCodes :
        /\ NativeInt("SDL_VideoModeOK", bpp)
        /\ Return("is_video_mode_ok", is_video_mode_ok(bpp))

GetVideoSurface ==
    /\ Cardinality(surfaces) < MaxSurfaces
    /\ \E raw \in Ptrs :
        /\ NativePtr("SDL_GetVideoSurface", raw)
        /\ ReturnSurface("get_video_surface", get_video_surface(raw, get_error))

SurfaceNew ==
    /\ Cardinality(surfaces) < MaxSurfaces
    /\ \E raw \in Ptrs :
        /\ NativePtr("SDL_CreateRGBSurface", raw)
        /\ ReturnSurface("Surface::new", Surface_new(raw, get_error))

\* Surface::from_bmp: CString::new(path).unwrap() panics on a path that holds
\* a NUL byte; otherwise SDL_LoadBMP_RW(SDL_RWFromFile(path, "rb"), 1).
SurfaceFromBmp ==
    /\ Cardinality(surfaces) < MaxSurfaces
    /\ \E path_has_nul \in BOOLEAN :
        IF path_has_nul
        THEN PanicBeforeCall("Surface::from_bmp")
        ELSE \E raw \in Ptrs :
                /\ NativePtr("SDL_LoadBMP_RW", raw)
                /\ ReturnSurface("Surface::from_bmp", Surface_from_bmp(raw, get_error))

SurfaceSetColors ==
    /\ surfaces # {}
    /\ \E ret \in RetCodes :
        /\ NativeInt("SDL_SetColors", ret)
        /\ Return("Surface::set_colors", Value(Surface_set_colors(ret)))

SurfaceSetPalette ==
    /\ surfaces # {}
    /\ \E ret \in RetCodes :
        /\ NativeInt("SDL_SetPalette", ret)
        /\ Return("Surface::set_palette", Value(Surface_set_palette(ret)))

SurfaceLock ==
    /\ surfaces # {}
    /\ \E ret \in RetCodes :
        /\ NativeInt("SDL_LockSurface", ret)
        /\ Return("Surface::lock", Value(Surface_lock(ret)))

SurfaceFlip ==
    /\ surfaces # {}
    /\ \E ret \in RetCodes :
        /\ NativeInt("SDL_Flip", ret)
        /\ Return("Surface::flip", Value(Surface_flip(ret)))

SurfaceConvert ==
    /\ surfaces # {}
    /\ Cardinality(surfaces) < MaxSurfaces
    /\ \E new \in Ptrs :
        /\ NativePtr("SDL_ConvertSurface", new)
        /\ ReturnSurface("Surface::convert", Surface_convert(new, get_error))

SurfaceTryClone ==
    /\ surfaces # {}
    /\ Cardinality(surfaces) < MaxSurfaces
    /\ \E new \in Ptrs :
        /\ NativePtr("SDL_ConvertSurface", new)
        /\ ReturnSurface("Surface::try_clone", Surface_try_clone(new, get_error))

SurfaceDisplayFormat ==
    /\ surfaces # {}
    /\ Cardinality(surfaces) < MaxSurfaces
    /\ \E raw \in Ptrs :
        /\ NativePtr("SDL_DisplayFormat", raw)
        /\ ReturnSurface("Surface::display_format",
                         Surface_display_format(raw, get_error))

SurfaceDisplayFormatAlpha ==
    /\ surfaces # {}
    /\ Cardinality(surfaces) < MaxSurfaces
    /\ \E raw \in Ptrs :
        /\ NativePtr("SDL_DisplayFormatAlpha", raw)
        /\ ReturnSurface("Surface::display_format_alpha",
                         Surface_display_format_alpha(raw, get_error))

\* Surface::save_bmp: CString::new(path).unwrap() panics on a path that holds
\* a NUL byte; otherwise SDL_SaveBMP_RW(raw, SDL_RWFromFile(path, "wb"), 1).
SurfaceSaveBmp ==
    /\ surfaces # {}
    /\ \E path_has_nul \in BOOLEAN :
        IF path_has_nul
        THEN PanicBeforeCall("Surface::save_bmp")
        ELSE \E ret \in RetCodes :
                /\ NativeInt("SDL_SaveBMP_RW", ret)
                /\ Return("Surface::save_bmp", Value(Surface_save_bmp(ret)))

SurfaceSetAlpha ==
    /\ surfaces # {}
    /\ \E ret \in RetCodes :
        /\ NativeInt("SDL_SetAlpha", ret)
        /\ Return("Surface::set_alpha", Value(Surface_set_alpha(ret)))

\* Surface::set_color_key: the colour is mapped by SDL_MapRGB / SDL_MapRGBA,
\* then SDL_SetColorKey.
SurfaceSetColorKey ==
    /\ surfaces # {}
    /\ \E ret \in RetCodes :
        /\ NativeInt("SDL_SetColorKey", ret)
        /\ Return("Surface::set_color_key", Value(Surface_set_color_key(ret)))

SurfaceBlitRect ==
    /\ surfaces # {}
    /\ \E ret \in RetCodes :
        /\ NativeInt("SDL_UpperBlit", ret)
        /\ Return("Surface::blit_rect", Value(Surface_blit_rect(ret)))

\* Surface::fill_rect: the colour is mapped by SDL_MapRGB / SDL_MapRGBA, then
\* SDL_FillRect.
SurfaceFillRect ==
    /\ surfaces # {}
    /\ \E ret \in RetCodes :
        /\ NativeInt("SDL_FillRect", ret)
        /\ Return("Surface::fill_rect", Value(Surface_fill_rect(ret)))

SetGamma ==
    \E ret \in RetCodes :
        /\ NativeInt("SDL_SetGamma", ret)
        /\ Return("set_gamma", Value(set_gamma(ret)))

SetGammaRamp ==
    \E ret \in RetCodes :
        /\ NativeInt("SDL_SetGammaRamp", ret)
        /\ Return("set_gamma_ramp", Value(set_gamma_ramp(ret)))

\* impl Drop for Surface: an owned surface is freed.
SurfaceDrop ==
    \E s \in surfaces :
        /\ surfaces' = surfaces \ {s}
        /\ ll_call' = IF s.owned THEN [fn |-> "SDL_FreeSurface", ret |-> 0]
                      ELSE NoNative
        /\ vresult' = [op |-> "drop", out |-> Unit]
        /\ UNCHANGED <<sdl_error, mono, instants, operands, result>>

VideoNext ==
    \/ SetVideoMode
    \/ IsVideoModeOk
    \/ GetVideoSurface
    \/ SurfaceNew
    \/ SurfaceFromBmp
    \/ SurfaceSetColors
    \/ SurfaceSetPalette
    \/ SurfaceLock
    \/ SurfaceFlip
    \/ SurfaceConvert
    \/ SurfaceTryClone
    \/ SurfaceDisplayFormat
    \/ SurfaceDisplayFormatAlpha
    \/ SurfaceSaveBmp
    \/ SurfaceSetAlpha
    \/ SurfaceSetColorKey
    \/ SurfaceBlitRect
    \/ SurfaceFillRect
    \/ SetGamma
    \/ SetGammaRamp
    \/ SurfaceDrop

VideoSpec == Init /\ [][VideoNext]_vars

(***************************************************************************)
(* Properties of the video module.                                         *)
(***************************************************************************)
SurfaceProducers ==
    {"set_video_mode", "get_video_surface", "Surface::new", "Surface::from_bmp",
     "Surface::convert", "Surface::try_clone", "Surface::display_format",
     "Surface::display_format_alpha"}

\* C9: every surface-producing wrapper returns Err(get_error()) exactly when
\* its SDL call returns a null pointer, and otherwise Ok(Surface) whose raw
\* is the non-null pointer SDL returned; no Ok(Surface) holds a null raw.
C9_SurfaceResults ==
    /\ (vresult.op \in SurfaceProducers /\ ll_call.fn # "none") =>
        /\ vresult.out.tag = "Err" <=> ll_call.ret = NULL
        /\ vresult.out.tag = "Err" => vresult.out.v = sdl_error
        /\ ll_call.ret # NULL =>
            /\ vresult.out.tag = "Ok"
            /\ vresult.out.v.raw = ll_call.ret
    /\ vresult.out.tag = "Ok" => vresult.out.v.raw # NULL
    /\ \A s \in surfaces : s.raw # NULL

\* A surface-producing wrapper whose SDL call returned a null pointer.
C9_Witness ==
    /\ vresult.op = "Surface::try_clone"
    /\ ll_call = [fn |-> "SDL_ConvertSurface", ret |-> NULL]
    /\ vresult.out = Err("Out of memory")

ZeroIsSuccess ==
    {"Surface::lock", "Surface::flip", "Surface::set_alpha",
     "Surface::set_color_key", "Surface::blit_rect", "Surface::fill_rect",
     "Surface::save_bmp"}

\* C10: lock, flip, set_alpha, set_color_key, blit_rect, fill_rect and
\* save_bmp return true iff the SDL call returned 0; set_colors and
\* set_palette iff it returned 1; set_gamma and set_gamma_ramp iff it did not
\* return -1; is_video_mode_ok returns None iff SDL_VideoModeOK returned 0
\* and otherwise Some of the returned bpp.
C10_ReturnCodes ==
    ll_call.fn # "none" =>
        /\ vresult.op \in ZeroIsSuccess =>
            vresult.out = Value(ll_call.ret = 0)
        /\ vresult.op \in {"Surface::set_colors", "Surface::set_palette"} =>
            vresult.out = Value(ll_call.ret = 1)
        /\ vresult.op \in {"set_gamma", "set_gamma_ramp"} =>
            vresult.out = Value(ll_call.ret # -1)
        /\ vresult.op = "is_video_mode_ok" =>
            /\ vresult.out = None <=> ll_call.ret = 0
            /\ ll_call.ret # 0 => vresult.out = Some(ll_call.ret)

\* SDL_VideoModeOK returned a negative code: is_video_mode_ok returns Some.
C10_Witness ==
    /\ vresult.op = "is_video_mode_ok"
    /\ ll_call.ret < 0
    /\ vresult.out = Some(ll_call.ret)

====
